---- MODULE Spec2Model ----
(***************************************************************************)
(* The EVM signer of the x402 facilitator (package signer): construction   *)
(* of an EVMSigner from an EVMSignerConfig, the transaction lifecycle of   *)
(* WriteContract / SendTransaction against the RPC node, and               *)
(* WaitForTransactionReceipt.  Several callers share one EVMSigner.        *)
(*                                                                         *)
(* Abstractions.  A Keccak/RLP hash is injective for the purposes of this  *)
(* model, so a digest is the record of the fields it hashes and a          *)
(* transaction hash is the record of the signed transaction.  A signature  *)
(* is named by the key that made it; the RPC node recovers the sender of a *)
(* transaction from that key.                                              *)
(***************************************************************************)
EXTENDS Integers, Sequences, FiniteSets, TLC

\* ------------------------------------------------------------- bounds
\* Number of callers sharing the EVMSigner; each makes one call.
NumCallers == 2

Callers == 1 .. NumCallers
NoCaller == 0

\* ------------------------------------------------------------- values
Keys == {"K1", "K2"}
Addrs == {"A1", "A2"}
\* crypto.PubkeyToAddress: the address of a key.
PubkeyToAddress(k) == IF k = "K1" THEN "A1" ELSE "A2"
\* The key behind the external signing callback (opaque to the signer).
CallbackKey == "K2"
NoAddress == "0x0"

\* What the RPC node may report.
GasPrices == {1000000000, 2000000000}
GasEstimates == {21000, 50000}
NetworkIDs == {1, 2}
\* Pending nonce of each account when the model starts.
StartNonce(a) == IF a = "A1" THEN 5 ELSE 0

\* EVMSignerConfig.Addresses values: none, one, several.
AddressLists == {<<>>, <<"A1">>, <<"A2">>, <<"A2", "A1">>}

\* EVMSignerConfig values.  PrivateKey "bad" is a string that is no hex key;
\* Signer "callback" is a signing function backed by CallbackKey.
Configs ==
  [RpcURL : {"", "url"},
   ChainID : {0, 1},
   PrivateKey : {"", "K1", "bad"},
   Signer : {"nil", "callback"},
   Addresses : AddressLists]

\* The configurations and RPC nodes the callers' runs start from.
CallConfigs ==
  {cfg \in Configs : cfg.RpcURL = "url" /\ cfg.ChainID = 0 /\ cfg.PrivateKey # "bad"}
CallRpcs == [networkID : {1}, gasPrice : GasPrices, gasEstimate : GasEstimates]

VARIABLES
  config,      \* the EVMSignerConfig handed to NewEVMSigner
  signer,      \* the EVMSigner: state, addresses, chainID, signing mechanism
  newErr,      \* the error NewEVMSigner returned ("" for none)
  conn,        \* the ethclient connection: "none", "open", "closed"
  rpc,         \* the RPC node: network id, gas price, gas estimate
  pending,     \* the RPC node's pending nonce of each account
  sent,        \* the RPC node's record of submissions, in arrival order
  mined,       \* transaction hashes the RPC node holds a receipt for
  serialized,  \* whether callers hold the per-address lock around a call
  lock,        \* holder of the per-address lock (NoCaller when free)
  pc,          \* each caller's next step
  call,        \* each caller's WriteContract/SendTransaction invocation
  wait,        \* each caller's WaitForTransactionReceipt invocation
  fac,         \* what evm.NewFacilitator returned
  typedData,   \* the TypedData handed to the EIP-712 hashing functions
  hashed,      \* what the hashing function applied to typedData returned
  verified,    \* a VerifyTypedData call on its own: its arguments and result
  request      \* an HTTP request to /settle or /verify, and its answer

vars == <<config, signer, newErr, conn, rpc, pending, sent, mined,
          serialized, lock, pc, call, wait, fac, typedData, hashed, verified,
          request>>

\* ------------------------------------------------------------- EVMSigner
NoSigner ==
  [state |-> "none", addresses |-> <<>>, chainID |-> 0,
   kind |-> "none", key |-> "none"]

\* A constructor that prefers the private key to the callback.
SignerKind_KeyFirst(cfg) ==
  IF cfg.PrivateKey # "" THEN "key"
  ELSE IF cfg.Signer # "nil" THEN "callback" ELSE "none"

\* The signing mechanism NewEVMSigner installs: the callback when one is
\* given, else the private key.
SignerKind(cfg) ==
  IF cfg.Signer # "nil" THEN "callback"
  ELSE IF cfg.PrivateKey # "" THEN "key" ELSE "none"

\* The addresses NewEVMSigner stores: the configured list, or, for a private
\* key and an empty list, the address derived from the key.
SignerAddresses(cfg) ==
  IF Len(cfg.Addresses) > 0 THEN cfg.Addresses
  ELSE IF cfg.Signer = "nil" /\ cfg.PrivateKey \in Keys
       THEN <<PubkeyToAddress(cfg.PrivateKey)>>
       ELSE <<>>

\* A constructor that does not compare the configured chain id.
NewEVMSignerError_NoChainCheck(cfg, dialOK, netOK, netID) ==
  IF cfg.RpcURL = "" THEN "rpc URL is required"
  ELSE IF ~dialOK THEN "failed to connect to RPC"
  ELSE IF ~netOK THEN "failed to get network ID"
  ELSE IF cfg.Signer # "nil" THEN ""
  ELSE IF cfg.PrivateKey = "" THEN "either PrivateKey or SignerCallback must be provided"
  ELSE IF cfg.PrivateKey \notin Keys THEN "failed to parse private key"
  ELSE ""

\* The error NewEVMSigner returns, "" when it returns a signer.
NewEVMSignerError(cfg, dialOK, netOK, netID) ==
  IF cfg.RpcURL = "" THEN "rpc URL is required"
  ELSE IF ~dialOK THEN "failed to connect to RPC"
  ELSE IF ~netOK THEN "failed to get network ID"
  ELSE IF cfg.ChainID # 0 /\ netID # cfg.ChainID THEN "chain ID mismatch"
  ELSE IF cfg.Signer # "nil" THEN ""
  ELSE IF cfg.PrivateKey = "" THEN "either PrivateKey or SignerCallback must be provided"
  ELSE IF cfg.PrivateKey \notin Keys THEN "failed to parse private key"
  ELSE ""

\* The EVMSigner NewEVMSigner returns for cfg on the network netID.
EVMSignerOf(cfg, netID) ==
  [state |-> "ok",
   addresses |-> SignerAddresses(cfg),
   chainID |-> netID,
   kind |-> SignerKind(cfg),
   key |-> IF SignerKind(cfg) = "callback" THEN CallbackKey ELSE cfg.PrivateKey]

\* The connection NewEVMSigner leaves behind: the one ethclient.Dial opened.
DialedConn(cfg, dialOK) == IF cfg.RpcURL # "" /\ dialOK THEN "open" ELSE "none"

NewEVMSigner ==
  /\ signer.state = "none"
  /\ newErr = ""
  /\ fac.state = "none"
  /\ \E dialOK \in BOOLEAN, netOK \in BOOLEAN :
       LET err == NewEVMSignerError(config, dialOK, netOK, rpc.networkID)
       IN /\ newErr' = err
          /\ conn' = DialedConn(config, dialOK)
          /\ signer' = IF err = "" THEN EVMSignerOf(config, rpc.networkID)
                        ELSE [NoSigner EXCEPT !.state = "failed"]
  /\ UNCHANGED <<fac, typedData, hashed, verified, request, config, rpc, pending, sent, mined, serialized, lock, pc, call, wait>>

\* ------------------------------------------------------------- calls
ToAddrs == {"T1"}
NoTx == [nonce |-> 0, to |-> "", value |-> 0, gas |-> 0, gasPrice |-> 0, data |-> ""]
NoDigest == [chainID |-> 0, tx |-> NoTx]
\* The empty hash string a failed call returns.
NoHash == [kind |-> "none", chainID |-> 0, tx |-> NoTx, by |-> ""]
\* (&ethTypes.Transaction{}).Hash(): the hash of the zero transaction.
EmptyTxHash == [kind |-> "tx", chainID |-> 0, tx |-> NoTx, by |-> ""]
NoCall ==
  [op |-> "", to |-> "", data |-> "", from |-> "", nonce |-> 0, gasPrice |-> 0,
   gasLimit |-> 0, digest |-> NoDigest, sig |-> "", hash |-> NoHash,
   err |-> "", log |-> <<>>]
NoWait ==
  [txHash |-> NoHash, awaited |-> NoHash, ctxDone |-> FALSE, polling |-> FALSE,
   due |-> FALSE, result |-> "", receipt |-> NoHash]

\* An order that asks for the gas price before the nonce.
StepAfter_GasPriceFirst(step) ==
  CASE step = "begin" -> "SuggestGasPrice"
    [] step = "SuggestGasPrice" -> "PendingNonceAt"
    [] step = "PendingNonceAt" -> "EstimateGas"
    [] step = "EstimateGas" -> "Sign"
    [] step = "Sign" -> "SendTransaction"
    [] step = "SendTransaction" -> "returned"

\* The order of the steps of WriteContract and of SendTransaction.
StepAfter(step) ==
  CASE step = "begin" -> "PendingNonceAt"
    [] step = "PendingNonceAt" -> "SuggestGasPrice"
    [] step = "SuggestGasPrice" -> "EstimateGas"
    [] step = "EstimateGas" -> "Sign"
    [] step = "Sign" -> "SendTransaction"
    [] step = "SendTransaction" -> "returned"

\* A call that goes on to its next step when a step has failed.
AfterFailure_GoesOn(step) == StepAfter(step)
\* Where a call goes when the step before its submission fails: every
\* "if err != nil" of WriteContract and SendTransaction returns.
AfterFailure(step) == "returned"

\* A call that starts over with a fresh nonce when its submission fails.
AfterSendFailure_Retry == "PendingNonceAt"
\* Where a call goes when SendTransaction on the RPC node fails.
AfterSendFailure == "returned"

\* A call that does not look at the address list before using it.
NoSignerAddresses_Unchecked == FALSE
\* len(s.addresses) == 0
NoSignerAddresses == Len(signer.addresses) = 0
\* fromAddr := s.addresses[0]; read only after the length check.
FromAddr == IF Len(signer.addresses) = 0 THEN NoAddress ELSE signer.addresses[1]

\* parsedABI.Pack(functionName, args...)
Pack(functionName) == "call:" \o functionName

\* The gas limit and the gas price passed in each other's place.
NewTransaction_GasSwapped(nonce, to, amount, gasLimit, gasPrice, data) ==
  [nonce |-> nonce, to |-> to, value |-> amount, gas |-> gasPrice,
   gasPrice |-> gasLimit, data |-> data]
\* The transaction built with the nonce after the one read.
NewTransaction_NextNonce(nonce, to, amount, gasLimit, gasPrice, data) ==
  [nonce |-> nonce + 1, to |-> to, value |-> amount, gas |-> gasLimit,
   gasPrice |-> gasPrice, data |-> data]
\* ethTypes.NewTransaction(nonce, to, amount, gasLimit, gasPrice, data)
NewTransaction(nonce, to, amount, gasLimit, gasPrice, data) ==
  [nonce |-> nonce, to |-> to, value |-> amount, gas |-> gasLimit,
   gasPrice |-> gasPrice, data |-> data]

\* A gas limit a fifth above the estimate.
GasLimit_WithMargin(estimate) == estimate + estimate \div 5
\* The gas limit a call uses: gasLimit, err := s.client.EstimateGas(...)
GasLimit(estimate) == estimate

\* ethTypes.LatestSignerForChainID(s.chainID).Hash(tx)
Digest(chainID, tx) == [chainID |-> chainID, tx |-> tx]

\* signedTx.Hash() of tx.WithSignature(signer, sig)
SignedTxHash(digest, sig) ==
  [kind |-> "tx", chainID |-> digest.chainID, tx |-> digest.tx, by |-> sig]

\* The RPC node's pending nonce of an account (0 for one it never saw).
PendingNonce(a) == IF a \in DOMAIN pending THEN pending[a] ELSE 0

\* A nonce query that does not count the transactions still pending.
FetchNonce_Latest(a) == IF a \in Addrs THEN StartNonce(a) ELSE 0
\* nonce, err := s.client.PendingNonceAt(ctx, fromAddr)
FetchNonce(a) == PendingNonce(a)

\* The call's state once it has returned the error msg: the locals are gone.
Failed(c, msg, log) ==
  [NoCall EXCEPT !.op = call[c].op, !.err = msg, !.log = log]

\* The call's log with one more request: method m, its address argument a
\* ("" when it has none) and the number r the RPC node replied (0 when none).
Logged(c, m, a, r) == Append(call[c].log, [m |-> m, a |-> a, r |-> r])

\* The per-address lock of the callers' contract: taken before the call,
\* released when the call returns, on every path.
MayEnter(c) == serialized => lock = NoCaller
LockOnEnter(c, nextpc) ==
  IF serialized /\ nextpc # "returned" THEN c ELSE NoCaller
LockOnStep(c, nextpc) ==
  IF serialized /\ nextpc = "returned" THEN NoCaller ELSE lock

\* A method that remembers the sender it used as the signer's only address.
SignerAfter_CachesSender(op) ==
  IF op \in {"WriteContract", "SendTransaction"}
  THEN [signer EXCEPT !.addresses = <<FromAddr>>]
  ELSE signer
\* The EVMSigner after a step of its method op: the methods read s.client,
\* s.addresses, s.chainID and s.signer and assign to none of them.
SignerAfter(op) == signer

\* A step of caller c that leaves the RPC node as it is.
LocalStep(c, nextpc, newcall) ==
  /\ pc' = [pc EXCEPT ![c] = nextpc]
  /\ call' = [call EXCEPT ![c] = newcall]
  /\ signer' = SignerAfter(newcall.op)
  /\ UNCHANGED <<fac, typedData, hashed, verified, request, config, newErr, conn, rpc, pending, sent, mined,
                 serialized, wait>>

WriteContract_Begin(c) ==
  /\ pc[c] = "idle"
  /\ signer.state = "ok"
  /\ MayEnter(c)
  /\ \E address \in ToAddrs, abi \in {"ok", "badJSON", "badArgs"} :
       LET started == [NoCall EXCEPT !.op = "WriteContract"]
           nextpc == IF NoSignerAddresses \/ abi # "ok"
                     THEN "returned" ELSE StepAfter("begin")
       IN /\ LocalStep(c, nextpc,
               IF NoSignerAddresses
               THEN [started EXCEPT !.err = "no signer addresses available"]
               ELSE IF abi = "badJSON"
               THEN [started EXCEPT !.err = "failed to parse ABI"]
               ELSE IF abi = "badArgs"
               THEN [started EXCEPT !.err = "failed to pack function call"]
               ELSE [started EXCEPT !.to = address, !.from = FromAddr,
                                    !.data = Pack("transfer")])
          /\ lock' = LockOnEnter(c, nextpc)

SendTransaction_Begin(c) ==
  /\ pc[c] = "idle"
  /\ signer.state = "ok"
  /\ MayEnter(c)
  /\ \E to \in ToAddrs :
       LET started == [NoCall EXCEPT !.op = "SendTransaction"]
           nextpc == IF NoSignerAddresses THEN "returned" ELSE StepAfter("begin")
       IN /\ LocalStep(c, nextpc,
               IF NoSignerAddresses
               THEN [started EXCEPT !.err = "no signer addresses available"]
               ELSE [started EXCEPT !.to = to, !.from = FromAddr, !.data = "raw"])
          /\ lock' = LockOnEnter(c, nextpc)

\* s.client.PendingNonceAt(ctx, fromAddr)
PendingNonceAt(c) ==
  /\ pc[c] = "PendingNonceAt"
  /\ \E ok \in BOOLEAN :
       LET nonce == FetchNonce(call[c].from)
           log == Logged(c, "PendingNonceAt", call[c].from, IF ok THEN nonce ELSE 0)
           nextpc == IF ok THEN StepAfter("PendingNonceAt") ELSE AfterFailure("PendingNonceAt")
       IN /\ LocalStep(c, nextpc,
               IF ok
               THEN [call[c] EXCEPT !.nonce = nonce, !.log = log]
               ELSE Failed(c, "failed to get nonce", log))
          /\ lock' = LockOnStep(c, nextpc)

\* s.client.SuggestGasPrice(ctx)
SuggestGasPrice(c) ==
  /\ pc[c] = "SuggestGasPrice"
  /\ \E ok \in BOOLEAN :
       LET log == Logged(c, "SuggestGasPrice", "", IF ok THEN rpc.gasPrice ELSE 0)
           nextpc == IF ok THEN StepAfter("SuggestGasPrice") ELSE AfterFailure("SuggestGasPrice")
       IN /\ LocalStep(c, nextpc,
               IF ok
               THEN [call[c] EXCEPT !.gasPrice = rpc.gasPrice, !.log = log]
               ELSE Failed(c, "failed to suggest gas price", log))
          /\ lock' = LockOnStep(c, nextpc)

\* s.client.EstimateGas(ctx, CallMsg{From: fromAddr, To: &to, Data: data})
EstimateGas(c) ==
  /\ pc[c] = "EstimateGas"
  /\ \E ok \in BOOLEAN :
       LET log == Logged(c, "EstimateGas", call[c].from, IF ok THEN rpc.gasEstimate ELSE 0)
           nextpc == IF ok THEN StepAfter("EstimateGas") ELSE AfterFailure("EstimateGas")
       IN /\ LocalStep(c, nextpc,
               IF ok
               THEN [call[c] EXCEPT !.gasLimit = GasLimit(rpc.gasEstimate), !.log = log]
               ELSE Failed(c, "failed to estimate gas", log))
          /\ lock' = LockOnStep(c, nextpc)

\* What s.signer(digest) may answer: a private key always signs; a callback
\* signs, fails, or returns bytes that are no 65-byte signature.
SignOutcomes == IF signer.kind = "callback" THEN {"ok", "error", "malformed"} ELSE {"ok"}

\* tx := NewTransaction(...); digest := signer.Hash(tx); sig, err := s.signer(digest)
Sign(c) ==
  /\ pc[c] = "Sign"
  /\ \E outcome \in SignOutcomes :
       LET tx == NewTransaction(call[c].nonce, call[c].to, 0, call[c].gasLimit,
                                call[c].gasPrice, call[c].data)
           digest == Digest(signer.chainID, tx)
           log == Logged(c, "Sign", "", 0)
           nextpc == IF outcome = "error" THEN AfterFailure("Sign") ELSE StepAfter("Sign")
       IN /\ LocalStep(c, nextpc,
               IF outcome = "error"
               THEN Failed(c, "failed to sign transaction", log)
               ELSE [call[c] EXCEPT !.digest = digest, !.log = log,
                       !.sig = IF outcome = "ok" THEN signer.key ELSE "malformed"])
          /\ lock' = LockOnStep(c, nextpc)

\* signedTx, err := tx.WithSignature(signer, sig); s.client.SendTransaction(ctx, signedTx)
SendTransaction(c) ==
  /\ pc[c] = "SendTransaction"
  /\ IF call[c].sig = "malformed"
     THEN /\ LocalStep(c, "returned",
                Failed(c, "failed to apply signature", call[c].log))
          /\ lock' = LockOnStep(c, "returned")
     ELSE \E accepted \in BOOLEAN :
            LET log == Logged(c, "SendTransaction", "", 0)
                hash == SignedTxHash(call[c].digest, call[c].sig)
                sender == PubkeyToAddress(call[c].sig)
                nextpc == IF accepted THEN StepAfter("SendTransaction")
                          ELSE AfterSendFailure
            IN /\ pc' = [pc EXCEPT ![c] = nextpc]
               /\ call' = [call EXCEPT ![c] =
                    IF accepted THEN [call[c] EXCEPT !.hash = hash, !.log = log]
                    ELSE Failed(c, "failed to send transaction", log)]
               /\ sent' = Append(sent,
                    [caller |-> c, from |-> call[c].from, sender |-> sender,
                     nonce |-> call[c].digest.tx.nonce,
                     accepted |-> accepted, hash |-> hash])
               /\ pending' = IF accepted
                             THEN [pending EXCEPT ![sender] = @ + 1]
                             ELSE pending
               /\ lock' = LockOnStep(c, nextpc)
               /\ signer' = SignerAfter(call[c].op)
               /\ UNCHANGED <<fac, typedData, hashed, verified, request, config, newErr, conn, rpc, mined,
                              serialized, wait>>

\* ------------------------------------------------------------- receipts
\* The hash bind.WaitMined(ctx, s.client, &ethTypes.Transaction{}) polls for:
\* that of the zero transaction it is handed, whatever txHash is.
WaitMinedTarget(txHash) == EmptyTxHash

\* Evaluating Hash() on the zero transaction is up to the library: it faults
\* on the transaction's missing payload, or yields the hash of an empty one.
ZeroTxHashOutcomes == {"panic", "hash"}

\* hash := common.HexToHash(txHash); bind.WaitMined(...) starts.
\* due: a receipt for txHash was there for this call while its context lived.
WaitForTransactionReceipt_Begin(c) ==
  /\ pc[c] = "returned"
  /\ call[c].err = ""
  /\ \E outcome \in ZeroTxHashOutcomes :
       LET txHash == call[c].hash
           begun == [NoWait EXCEPT !.txHash = txHash, !.due = txHash \in mined]
       IN IF outcome = "panic"
          THEN /\ pc' = [pc EXCEPT ![c] = "panicked"]
               /\ wait' = [wait EXCEPT ![c] = [begun EXCEPT !.result = "panic"]]
          ELSE /\ pc' = [pc EXCEPT ![c] = "WaitMined"]
               /\ wait' = [wait EXCEPT ![c] =
                    [begun EXCEPT !.awaited = WaitMinedTarget(txHash),
                                  !.polling = TRUE]]
  /\ signer' = SignerAfter("WaitForTransactionReceipt")
  /\ UNCHANGED <<fac, typedData, hashed, verified, request, config, newErr, conn, rpc, pending, sent, mined,
                 serialized, lock, call>>

\* One round of bind.WaitMined's loop, and what follows it: a receipt for the
\* awaited hash ends the loop and s.client.TransactionReceipt(ctx, hash) is
\* asked for the receipt of txHash; a finished context ends the call with its
\* error; otherwise the loop sleeps until the next tick.
WaitMined(c) ==
  /\ pc[c] = "WaitMined"
  /\ LET w == wait[c]
     IN IF ~w.ctxDone /\ w.awaited \in mined
        THEN /\ pc' = [pc EXCEPT ![c] = "waitReturned"]
             /\ wait' = [wait EXCEPT ![c] =
                  IF w.txHash \in mined
                  THEN [w EXCEPT !.polling = FALSE, !.result = "ok",
                                 !.receipt = w.txHash, !.due = TRUE]
                  ELSE [w EXCEPT !.polling = FALSE,
                                 !.result = "failed to get transaction receipt"]]
        ELSE IF w.ctxDone
        THEN /\ pc' = [pc EXCEPT ![c] = "waitReturned"]
             /\ wait' = [wait EXCEPT ![c] =
                  [w EXCEPT !.polling = FALSE,
                            !.result = "failed to wait for transaction"]]
        ELSE /\ pc' = pc
             /\ wait' = [wait EXCEPT ![c].due = w.due \/ w.txHash \in mined]
  /\ signer' = SignerAfter("WaitForTransactionReceipt")
  /\ UNCHANGED <<fac, typedData, hashed, verified, request, config, newErr, conn, rpc, pending, sent, mined,
                 serialized, lock, call>>

\* The deadline of the call's context passes, or the context is cancelled.
CtxDone(c) ==
  /\ pc[c] = "WaitMined"
  /\ ~wait[c].ctxDone
  /\ wait' = [wait EXCEPT ![c].ctxDone = TRUE]
  /\ UNCHANGED <<fac, typedData, hashed, verified, request, config, signer, newErr, conn, rpc, pending, sent, mined,
                 serialized, lock, pc, call>>

\* The RPC node mines a transaction it accepted: a receipt for it exists.
Mine ==
  /\ \E i \in DOMAIN sent :
       /\ sent[i].accepted
       /\ sent[i].hash \notin mined
       /\ mined' = mined \cup {sent[i].hash}
  /\ UNCHANGED <<fac, typedData, hashed, verified, request, config, signer, newErr, conn, rpc, pending, sent,
                 serialized, lock, pc, call, wait>>

\* ------------------------------------------------------------- evm.NewFacilitator
NoArgs == [network |-> "", rpcURL |-> "", privateKeyHex |-> ""]
\* args: the arguments NewFacilitator was called with.
NoFacilitator == [state |-> "none", err |-> "", network |-> "", args |-> NoArgs]
Networks == {"", "base-sepolia"}
RpcURLs == {"", "url"}
PrivateKeyHexes == {"", "K1", "bad"}

\* Argument checks that look at the private key first.
NewFacilitatorError_KeyFirst(network, rpcURL, privateKeyHex) ==
  IF privateKeyHex = "" THEN "private key is required"
  ELSE IF rpcURL = "" THEN "rpc URL is required"
  ELSE IF network = "" THEN "network is required"
  ELSE ""

\* The argument checks of NewFacilitator: "" when all three are given.
NewFacilitatorError(network, rpcURL, privateKeyHex) ==
  IF network = "" THEN "network is required"
  ELSE IF rpcURL = "" THEN "rpc URL is required"
  ELSE IF privateKeyHex = "" THEN "private key is required"
  ELSE ""

\* config := &signer.EVMSignerConfig{RpcURL: rpcURL, PrivateKey: privateKeyHex}
FacilitatorConfig(rpcURL, privateKeyHex) ==
  [RpcURL |-> rpcURL, ChainID |-> 0, PrivateKey |-> privateKeyHex,
   Signer |-> "nil", Addresses |-> <<>>]

\* NewFacilitator(network, rpcURL, privateKeyHex): the argument checks, then
\* NewEVMSigner on the configuration built from the arguments, then the
\* scheme around the signer; a nil scheme closes the signer.
NewFacilitator ==
  /\ fac.state = "none"
  /\ signer.state = "none"
  /\ newErr = ""
  /\ \E network \in Networks, rpcURL \in RpcURLs, privateKeyHex \in PrivateKeyHexes,
        dialOK \in BOOLEAN, netOK \in BOOLEAN, schemeOK \in BOOLEAN :
       LET argErr == NewFacilitatorError(network, rpcURL, privateKeyHex)
           cfg == FacilitatorConfig(rpcURL, privateKeyHex)
           err == NewEVMSignerError(cfg, dialOK, netOK, rpc.networkID)
           args == [network |-> network, rpcURL |-> rpcURL,
                    privateKeyHex |-> privateKeyHex]
       IN IF argErr # ""
          THEN /\ fac' = [state |-> "failed", err |-> argErr, network |-> "",
                          args |-> args]
               /\ UNCHANGED <<config, signer, newErr, conn>>
          ELSE /\ config' = cfg
               /\ newErr' = err
               /\ signer' = IF err = "" THEN EVMSignerOf(cfg, rpc.networkID)
                             ELSE [NoSigner EXCEPT !.state = "failed"]
               /\ conn' = IF err = "" /\ ~schemeOK THEN "closed"
                           ELSE DialedConn(cfg, dialOK)
               /\ fac' = IF err # ""
                         THEN [state |-> "failed", network |-> "", args |-> args,
                               err |-> "failed to create EVM signer: " \o err]
                         ELSE IF ~schemeOK
                         THEN [state |-> "failed", network |-> "", args |-> args,
                               err |-> "failed to create ExactEvmScheme"]
                         ELSE [state |-> "ok", err |-> "", network |-> network,
                               args |-> args]
  /\ UNCHANGED <<typedData, hashed, verified, request, rpc, pending, sent, mined, serialized,
                 lock, pc, call, wait>>

\* ------------------------------------------------------------- EIP-712
\* Byte strings are sequences of numbers below 256; a Go string is the
\* sequence of its characters.  Keccak256 is injective for the purposes of
\* this model: a hash is named by what was hashed.

Zeros(n) == [i \in 1 .. n |-> 0]

\* common.LeftPadBytes(slice, l): a slice of l bytes or more comes back as is.
LeftPadBytes(slice, l) ==
  IF l <= Len(slice) THEN slice ELSE Zeros(l - Len(slice)) \o slice

\* (*big.Int).Bytes(): the big-endian bytes of the absolute value.
RECURSIVE NatBytes(_)
NatBytes(n) == IF n = 0 THEN <<>> ELSE Append(NatBytes(n \div 256), n % 256)

DecimalDigits == <<"0", "1", "2", "3", "4", "5", "6", "7", "8", "9">>
HexDigits == DecimalDigits \o <<"a", "b", "c", "d", "e", "f">>
IsDigit(ch) == \E i \in DOMAIN DecimalDigits : DecimalDigits[i] = ch
IsHexDigit(ch) == \E i \in DOMAIN HexDigits : HexDigits[i] = ch
HexValue(ch) == (CHOOSE i \in DOMAIN HexDigits : HexDigits[i] = ch) - 1

RECURSIVE DecimalValue(_)
DecimalValue(digits) ==
  IF digits = <<>> THEN 0
  ELSE DecimalValue(SubSeq(digits, 1, Len(digits) - 1)) * 10
       + HexValue(digits[Len(digits)])

\* n.SetString(v, 10): an optional sign, then one or more decimal digits and
\* nothing else.  The result is the sign and the bytes of the magnitude.
SetString(v) ==
  LET signed == Len(v) > 0 /\ v[1] \in {"+", "-"}
      digits == IF signed THEN Tail(v) ELSE v
      ok == Len(digits) > 0 /\ \A i \in DOMAIN digits : IsDigit(digits[i])
      abs == IF ok THEN NatBytes(DecimalValue(digits)) ELSE <<>>
  IN [ok |-> ok, neg |-> ok /\ signed /\ v[1] = "-" /\ abs # <<>>, abs |-> abs]

\* common.Hex2Bytes(str): hex.DecodeString with its error dropped, which
\* leaves the bytes decoded before the first bad or unpaired digit.
RECURSIVE Hex2Bytes(_)
Hex2Bytes(str) ==
  IF Len(str) < 2 \/ ~IsHexDigit(str[1]) \/ ~IsHexDigit(str[2]) THEN <<>>
  ELSE <<16 * HexValue(str[1]) + HexValue(str[2])>>
       \o Hex2Bytes(SubSeq(str, 3, Len(str)))

\* strings.HasPrefix(v, "0x")
Has0xPrefix(v) == Len(v) >= 2 /\ v[1] = "0" /\ v[2] = "x"

\* common.FromHex(s): the prefix dropped, an odd count of digits completed by
\* a leading "0", then Hex2Bytes.
FromHex(s) ==
  LET body == IF Len(s) >= 2 /\ s[1] = "0" /\ s[2] \in {"x", "X"}
              THEN SubSeq(s, 3, Len(s)) ELSE s
  IN Hex2Bytes(IF Len(body) % 2 = 1 THEN <<"0">> \o body ELSE body)

AddressLength == 20
\* common.BytesToAddress(b): the last 20 bytes of b, left-padded to 20.
BytesToAddress(b) ==
  IF Len(b) > AddressLength
  THEN SubSeq(b, Len(b) - AddressLength + 1, Len(b))
  ELSE LeftPadBytes(b, AddressLength)

\* common.HexToAddress(s).Bytes()
HexToAddress(s) == BytesToAddress(FromHex(s))

\* []byte(str) for the characters the model's strings are made of.
Chars == <<"-", "+", "0", "1", "5", "T", "e", "f", "g", "h", "i", "j", "s", "t", "x">>
CharCodes == <<45, 43, 48, 49, 53, 84, 101, 102, 103, 104, 105, 106, 115, 116, 120>>
StringBytes(str) ==
  [i \in DOMAIN str |-> CharCodes[CHOOSE k \in DOMAIN Chars : Chars[k] = str[i]]]

\* A piece of an encoding: raw bytes, or the 32-byte Keccak256 of bytes, or
\* the 32-byte Keccak256 of a type string.
RawBytes(b) == [kind |-> "raw", bytes |-> b, typeStr |-> ""]
Keccak256(b) == [kind |-> "keccak", bytes |-> b, typeStr |-> ""]
Keccak256TypeString(str) == [kind |-> "keccak", bytes |-> <<>>, typeStr |-> str]
HashLength == 32
PieceLen(piece) == IF piece.kind = "keccak" THEN HashLength ELSE Len(piece.bytes)
RECURSIVE EncodedLen(_)
EncodedLen(encoded) ==
  IF encoded = <<>> THEN 0 ELSE PieceLen(Head(encoded)) + EncodedLen(Tail(encoded))

\* A value of a message map, by its Go type: string, *big.Int, float64,
\* []byte, a nested map, or nil (also what a missing key reads as).  s: the
\* characters of a string; neg, abs: sign and magnitude bytes of a number
\* (for a float64, of int64(v)); abs: the bytes of a []byte.
StringValue(s) == [t |-> "string", s |-> s, neg |-> FALSE, abs |-> <<>>]
BigIntValue(neg, abs) == [t |-> "*big.Int", s |-> <<>>, neg |-> neg, abs |-> abs]
Float64Value(neg, abs) == [t |-> "float64", s |-> <<>>, neg |-> neg, abs |-> abs]
BytesValue(b) == [t |-> "[]byte", s |-> <<>>, neg |-> FALSE, abs |-> b]
MapValue == [t |-> "map", s |-> <<>>, neg |-> FALSE, abs |-> <<>>]
NilValue == [t |-> "nil", s |-> <<>>, neg |-> FALSE, abs |-> <<>>]

NoPiece == RawBytes(<<>>)
EncodeError(msg) == [err |-> msg, word |-> NoPiece]
Encoded(piece) == [err |-> "", word |-> piece]

\* strings.HasPrefix(fieldType, "uint") || strings.HasPrefix(fieldType, "int"),
\* on the field types of the model.
HasIntPrefix(fieldType) == fieldType \in {"uint256", "uint8", "int256", "uint256[]"}

\* encodeValue(fieldType, value)
encodeValue(fieldType, value) ==
  CASE fieldType = "address" ->
         IF value.t # "string" THEN EncodeError("expected string for address")
         ELSE Encoded(RawBytes(LeftPadBytes(HexToAddress(value.s), 32)))
    [] fieldType = "string" ->
         IF value.t # "string" THEN EncodeError("expected string")
         ELSE Encoded(Keccak256(StringBytes(value.s)))
    [] fieldType = "bytes" ->
         IF value.t = "string"
         THEN IF Has0xPrefix(value.s)
              THEN Encoded(Keccak256(Hex2Bytes(SubSeq(value.s, 3, Len(value.s)))))
              ELSE Encoded(Keccak256(StringBytes(value.s)))
         ELSE IF value.t = "[]byte" THEN Encoded(Keccak256(value.abs))
         ELSE EncodeError("expected string or []byte for bytes")
    [] OTHER ->
         IF HasIntPrefix(fieldType)
         THEN IF value.t = "string"
              THEN LET n == SetString(value.s)
                   IN IF ~n.ok THEN EncodeError("failed to parse as big.Int")
                      ELSE Encoded(RawBytes(LeftPadBytes(n.abs, 32)))
              ELSE IF value.t \in {"*big.Int", "float64"}
              THEN Encoded(RawBytes(LeftPadBytes(value.abs, 32)))
              ELSE EncodeError("expected numeric type")
         ELSE EncodeError("unsupported type: " \o fieldType)

\* types[name]: nil for a type that is not declared.
FieldsOf(types, name) == IF name \in DOMAIN types THEN types[name] ELSE <<>>

\* The "type name" list of typeHash, fields joined by commas.
RECURSIVE FieldList(_)
FieldList(fields) ==
  IF fields = <<>> THEN ""
  ELSE IF Len(fields) = 1 THEN fields[1].type \o " " \o fields[1].name
  ELSE fields[1].type \o " " \o fields[1].name \o "," \o FieldList(Tail(fields))

\* The type string typeHash builds for primaryType.
TypeString(types, primaryType) ==
  primaryType \o "(" \o FieldList(FieldsOf(types, primaryType)) \o ")"

\* typeHash(types, primaryType)
typeHash(types, primaryType) == Keccak256TypeString(TypeString(types, primaryType))

\* v[field.Name]
MapIndex(v, name) == IF name \in DOMAIN v THEN v[name] ELSE NilValue

\* The loop of encodeData over the fields of a message: the encodings so far,
\* until the first field whose encoding fails.
RECURSIVE EncodeFields(_, _, _)
EncodeFields(fields, v, encoded) ==
  IF fields = <<>> THEN [outcome |-> "ok", err |-> "", encoded |-> encoded]
  ELSE LET fieldEncoded == encodeValue(fields[1].type, MapIndex(v, fields[1].name))
       IN IF fieldEncoded.err # ""
          THEN [outcome |-> "error", err |-> fieldEncoded.err, encoded |-> <<>>]
          ELSE EncodeFields(Tail(fields), v, Append(encoded, fieldEncoded.word))

\* encodeData(types, "EIP712Domain", v) for v a TypedDataDomain.  Bytes() on a
\* nil ChainId dereferences nil.
encodeData_Domain(types, v) ==
  IF v.ChainId.nil THEN [outcome |-> "panic", err |-> "", encoded |-> <<>>]
  ELSE [outcome |-> "ok", err |-> "",
        encoded |-> <<typeHash(types, "EIP712Domain"),
                      Keccak256(StringBytes(v.Name)),
                      Keccak256(StringBytes(v.Version)),
                      RawBytes(LeftPadBytes(v.ChainId.abs, 32)),
                      RawBytes(HexToAddress(v.VerifyingContract))>>]

\* encodeData(types, primaryType, v) for v a message map.
encodeData_Message(types, primaryType, v) ==
  EncodeFields(FieldsOf(types, primaryType), v, <<typeHash(types, primaryType)>>)

NoHashed ==
  [op |-> "none", outcome |-> "none", err |-> "", typeStr |-> "",
   domain |-> <<>>, message |-> <<>>, field |-> 0, word |-> NoPiece]

\* HashTypedData(typedData): outcome "ok" with the preimages of the domain
\* separator and of the message hash, whose Keccak256 hashes make the digest;
\* "error" with no digest; "panic" when the call does not return.
HashTypedData(td) ==
  LET domainSeparator == encodeData_Domain(td.Types, td.Domain)
      messageHash == encodeData_Message(td.Types, td.PrimaryType, td.Message)
      result == [NoHashed EXCEPT !.op = "HashTypedData"]
  IN IF domainSeparator.outcome # "ok"
     THEN [result EXCEPT !.outcome = domainSeparator.outcome,
                         !.err = domainSeparator.err]
     ELSE IF messageHash.outcome # "ok"
     THEN [result EXCEPT !.outcome = messageHash.outcome, !.err = messageHash.err]
     ELSE [result EXCEPT !.outcome = "ok",
                         !.domain = domainSeparator.encoded,
                         !.message = messageHash.encoded]

\* ------------------------------------------------------------- typed data
Field(name, type) == [name |-> name, type |-> type]

\* The EIP712Domain declaration of VerifyTypedData and of the tests, and one
\* that declares only the name and the version.
DomainType ==
  <<Field("name", "string"), Field("version", "string"),
    Field("chainId", "uint256"), Field("verifyingContract", "address")>>
ShortDomainType == <<Field("name", "string"), Field("version", "string")>>
DomainTypes == {DomainType, ShortDomainType}

\* Struct declarations: with a struct referenced twice, with structs
\* referenced directly and through another struct, and without references.
MailTypes ==
  [Mail |-> <<Field("from", "Person"), Field("to", "Person"),
              Field("contents", "string")>>,
   Person |-> <<Field("name", "string"), Field("wallet", "address")>>]
OrderTypes ==
  [Order |-> <<Field("buyer", "Person"), Field("amount", "uint256")>>,
   Person |-> <<Field("name", "string"), Field("holding", "Asset")>>,
   Asset |-> <<Field("token", "address"), Field("amount", "uint256")>>]
TransferTypes ==
  [Transfer |-> <<Field("to", "address"), Field("amount", "uint256")>>]
\* One field of each field type.
FieldTypes ==
  {"address", "string", "bytes", "uint256", "uint8", "int256", "bool", "bytes32",
   "uint256[]"}
ValueTypes(fieldType) == [Value |-> <<Field("v", fieldType)>>]
StructTypes == {MailTypes, OrderTypes, TransferTypes} \cup {ValueTypes(t) : t \in FieldTypes}

\* The magnitude bytes of 2^256, the least integer no uint256 holds: 33 bytes.
TwoTo256 == <<1>> \o Zeros(32)

\* The values a message may hold.
Values ==
  {StringValue(<<>>), StringValue(<<"5">>), StringValue(<<"-", "5">>),
   StringValue(<<"+", "5">>), StringValue(<<"1", "5">>), StringValue(<<"0">>),
   StringValue(<<"-", "0">>), StringValue(<<"5", "x">>),
   StringValue(<<"0", "x", "5", "f">>), StringValue(<<"0", "x", "5">>),
   StringValue(<<"0", "x", "g", "g">>), StringValue(<<"0", "x", "0", "1">>),
   StringValue(<<"h", "i">>), StringValue(<<"h", "j">>),
   BigIntValue(FALSE, <<5>>), BigIntValue(TRUE, <<5>>), BigIntValue(FALSE, <<>>),
   BigIntValue(FALSE, TwoTo256),
   Float64Value(FALSE, <<5>>), Float64Value(TRUE, <<5>>),
   BytesValue(<<1, 2>>), MapValue, NilValue}

\* The values tried for a field of a struct with several fields.
FieldValues(fieldType) ==
  CASE fieldType = "string" -> {StringValue(<<"h", "i">>)}
    [] fieldType = "address" -> {StringValue(<<"0", "x", "0", "1">>)}
    [] fieldType = "uint256" ->
         {StringValue(<<"5">>), StringValue(<<"-", "5">>), BigIntValue(TRUE, <<5>>)}
    [] OTHER -> {MapValue}

\* The message maps for a struct: any of its fields may be missing.
Messages(fields) ==
  LET names == {fields[i].name : i \in DOMAIN fields}
      typeOf(n) == fields[CHOOSE i \in DOMAIN fields : fields[i].name = n].type
  IN UNION {{m \in [present -> Values] :
               \A n \in present :
                 m[n] \in (IF Len(fields) = 1 THEN Values ELSE FieldValues(typeOf(n)))}
            : present \in SUBSET names}

\* domain.ChainID: a *big.Int, nil when the domain has no chain id.
NilBigInt == [nil |-> TRUE, neg |-> FALSE, abs |-> <<>>]
Domains ==
  [Name : {<<>>, <<"T", "e", "s", "t">>},
   Version : {<<>>, <<"1">>},
   ChainId : {NilBigInt, [nil |-> FALSE, neg |-> FALSE, abs |-> <<1>>]},
   VerifyingContract : {<<>>, <<"0", "x", "0", "1">>}]

TypedDatas ==
  UNION {UNION {{[Types |-> ("EIP712Domain" :> dt) @@ types,
                  PrimaryType |-> primaryType,
                  Domain |-> domain,
                  Message |-> message]
                 : dt \in DomainTypes, domain \in Domains,
                   message \in Messages(types[primaryType])}
                : primaryType \in DOMAIN types}
         : types \in StructTypes}

\* Scenario A of the tests: Message{content: string} in the domain "Test".
NoTypedData ==
  [Types |-> ("EIP712Domain" :> DomainType) @@ ValueTypes("string"),
   PrimaryType |-> "Value",
   Domain |-> [Name |-> <<"T", "e", "s", "t">>, Version |-> <<"1">>,
               ChainId |-> [nil |-> FALSE, neg |-> FALSE, abs |-> <<1>>],
               VerifyingContract |-> <<"0", "x", "0", "1">>],
   Message |-> [v |-> StringValue(<<"h", "i">>)]]

signerVars ==
  <<config, signer, newErr, conn, rpc, pending, sent, mined, serialized, lock,
    pc, call, wait, fac>>

\* digest, primaryType, err := HashTypedData(typedData)
HashTypedData_Call ==
  /\ hashed = NoHashed
  /\ hashed' = HashTypedData(typedData)
  /\ UNCHANGED <<typedData, verified, request, signerVars>>

\* hash := typeHash(types, primaryType)
typeHash_Call ==
  /\ hashed = NoHashed
  /\ hashed' = [NoHashed EXCEPT !.op = "typeHash", !.outcome = "ok",
                  !.typeStr = typeHash(typedData.Types, typedData.PrimaryType).typeStr]
  /\ UNCHANGED <<typedData, verified, request, signerVars>>

\* encoded, err := encodeValue(field.Type, message[field.Name]) for a field
\* of the primary type.
encodeValue_Call ==
  /\ hashed = NoHashed
  /\ \E i \in DOMAIN FieldsOf(typedData.Types, typedData.PrimaryType) :
       LET field == FieldsOf(typedData.Types, typedData.PrimaryType)[i]
           fieldEncoded == encodeValue(field.type, MapIndex(typedData.Message, field.name))
       IN hashed' = [NoHashed EXCEPT !.op = "encodeValue", !.field = i,
                       !.outcome = IF fieldEncoded.err = "" THEN "ok" ELSE "error",
                       !.err = fieldEncoded.err, !.word = fieldEncoded.word]
  /\ UNCHANGED <<typedData, verified, request, signerVars>>

\* ------------------------------------------------------------- reads
\* A method of one step, run by caller c: what it returns and what it asked
\* of the RPC node or saw of the signer.  It takes no lock.
ReadReturns(c, op, err, log) ==
  /\ pc' = [pc EXCEPT ![c] = IF err = "panic" THEN "panicked" ELSE "readReturned"]
  /\ call' = [call EXCEPT ![c] = [NoCall EXCEPT !.op = op, !.err = err, !.log = log]]
  /\ signer' = SignerAfter(op)
  /\ UNCHANGED <<fac, typedData, hashed, verified, request, config, newErr, conn, rpc, pending, sent,
                 mined, serialized, lock, wait>>

\* GetAddresses(): a fresh slice with the hex form of each of s.addresses.
GetAddresses(c) ==
  /\ pc[c] = "idle"
  /\ signer.state = "ok"
  /\ ReadReturns(c, "GetAddresses", "",
       [i \in DOMAIN signer.addresses |->
          [m |-> "GetAddresses", a |-> signer.addresses[i], r |-> i]])

\* GetChainID(ctx): s.chainID.
GetChainID(c) ==
  /\ pc[c] = "idle"
  /\ signer.state = "ok"
  /\ ReadReturns(c, "GetChainID", "",
       <<[m |-> "GetChainID", a |-> "", r |-> signer.chainID]>>)

\* ReadContract(ctx, address, abiJSON, functionName, args...): parse the ABI,
\* pack the call, s.client.CallContract, look the method up, unpack.
ReadContract(c) ==
  /\ pc[c] = "idle"
  /\ signer.state = "ok"
  /\ \E address \in ToAddrs,
        outcome \in {"badJSON", "badArgs", "callFailed", "noMethod", "badResult", "ok"} :
       LET asked == <<[m |-> "CallContract", a |-> address, r |-> 0]>>
       IN CASE outcome = "badJSON" ->
                 ReadReturns(c, "ReadContract", "failed to parse ABI", <<>>)
            [] outcome = "badArgs" ->
                 ReadReturns(c, "ReadContract", "failed to pack function call", <<>>)
            [] outcome = "callFailed" ->
                 ReadReturns(c, "ReadContract", "failed to call contract", asked)
            [] outcome = "noMethod" ->
                 ReadReturns(c, "ReadContract", "function not found in ABI", asked)
            [] outcome = "badResult" ->
                 ReadReturns(c, "ReadContract", "failed to unpack result", asked)
            [] outcome = "ok" -> ReadReturns(c, "ReadContract", "", asked)

\* GetBalance(ctx, address, tokenAddress): s.client.BalanceAt for the native
\* token (tokenAddress "" or the zero address), else balanceOf by CallContract.
GetBalance(c) ==
  /\ pc[c] = "idle"
  /\ signer.state = "ok"
  /\ \E address \in Addrs, tokenAddress \in {"", NoAddress, "T1"},
        outcome \in {"failed", "short", "ok"} :
       IF tokenAddress \in {"", NoAddress}
       THEN ReadReturns(c, "GetBalance",
              IF outcome = "failed" THEN "failed to get balance" ELSE "",
              <<[m |-> "BalanceAt", a |-> address, r |-> 0]>>)
       ELSE ReadReturns(c, "GetBalance",
              CASE outcome = "failed" -> "failed to call balanceOf"
                [] outcome = "short" -> "invalid balanceOf response"
                [] outcome = "ok" -> "",
              <<[m |-> "CallContract", a |-> tokenAddress, r |-> 0]>>)

\* GetCode(ctx, address): s.client.CodeAt.
GetCode(c) ==
  /\ pc[c] = "idle"
  /\ signer.state = "ok"
  /\ \E address \in Addrs, ok \in BOOLEAN :
       ReadReturns(c, "GetCode", IF ok THEN "" ELSE "failed to get code",
                   <<[m |-> "CodeAt", a |-> address, r |-> 0]>>)

\* A signature handed to VerifyTypedData.  len: its length in bytes; v: its
\* last byte; key: the key that made r and s; over: whether they were made
\* over HashTypedData(typedData), the digest of the typed data that was
\* signed ("this"), or over another digest ("other").
Signatures ==
  [len : {65}, v : {0, 1, 27, 28, 31}, key : Keys, over : {"this", "other"}]
  \cup [len : {0, 64}, v : {0}, key : {"K1"}, over : {"this"}]
NoSignature == [len |-> 0, v |-> 0, key |-> "K1", over |-> "this"]

\* The recovery id crypto.Sign gives the signature key makes of a digest.
RecoveryID(key) == IF key = "K1" THEN 0 ELSE 1

\* A check that takes the last byte of the signature as it comes.
AdjustV_AsGiven(sig) == sig.v
\* if len(sig) == 65 && sig[64] >= 27 { sig[64] -= 27 }
AdjustV(sig) == IF sig.len = 65 /\ sig.v >= 27 THEN sig.v - 27 ELSE sig.v

\* crypto.SigToPub(digest, sig) and crypto.PubkeyToAddress, where v is the
\* last byte of sig and signed tells whether digest is the digest r and s
\* were made over: an error unless sig has 65 bytes and v is a recovery id
\* of a point; the signing key's address for r and s made over this digest
\* with the recovery id they were made with; the address of another point
\* ("A?") for another digest or the other recovery id.
RecoverAddress(signed, sig, v) ==
  IF sig.len # 65 THEN [err |-> "failed to recover public key", addr |-> ""]
  ELSE IF v >= 2 THEN [err |-> "failed to recover public key", addr |-> ""]
  ELSE IF signed /\ v = RecoveryID(sig.key)
  THEN [err |-> "", addr |-> PubkeyToAddress(sig.key)]
  ELSE [err |-> "", addr |-> "A?"]

\* The TypedData VerifyTypedData builds: the four-field EIP712Domain and the
\* caller's types, but for a type of that name.
VerifyTypes(types) ==
  ("EIP712Domain" :> DomainType)
  @@ [n \in DOMAIN types \ {"EIP712Domain"} |-> types[n]]

\* digest, _, err := HashTypedData(typedData) in VerifyTypedData
VerifyDigest(td) == HashTypedData([td EXCEPT !.Types = VerifyTypes(td.Types)])

\* Two calls of HashTypedData returned the same digest: Keccak256 of the
\* same domain and message preimages.
SameDigest(a, b) ==
  /\ a.outcome = "ok" /\ b.outcome = "ok"
  /\ a.domain = b.domain /\ a.message = b.message

\* The digest handed to SigToPub is the one r and s were made over: the
\* signature is one over HashTypedData(typedData), and that (same) is the
\* digest VerifyTypedData computed.
SignedOver(signature, same) == signature.over = "this" /\ same

NoVerified ==
  [op |-> "none", td |-> NoTypedData, address |-> "", signature |-> NoSignature,
   code |-> FALSE, outcome |-> "none", err |-> "", addr |-> "", ok |-> FALSE,
   asked |-> <<>>]

\* What VerifyTypedData does after hashing, for the digest HashTypedData
\* returned: outcome "panic" when hashing did not return, "error" with the
\* error and false, or "ok" with the recovered address and whether it is the
\* expected one.  asked: the requests made of the RPC node, of which there
\* is none.
VerifyTypedDataResult(digest, signed, address, signature) ==
  LET recovered == RecoverAddress(signed, signature, AdjustV(signature))
      result == [NoVerified EXCEPT !.op = "VerifyTypedData", !.address = address,
                                   !.signature = signature]
  IN CASE digest.outcome = "panic" -> [result EXCEPT !.outcome = "panic"]
       [] digest.outcome = "error" ->
            [result EXCEPT !.outcome = "error", !.err = "failed to hash typed data"]
       [] OTHER ->
            IF recovered.err # ""
            THEN [result EXCEPT !.outcome = "error", !.err = recovered.err]
            ELSE [result EXCEPT !.outcome = "ok", !.addr = recovered.addr,
                                !.ok = (recovered.addr = address)]

\* VerifyTypedData(ctx, address, domain, types, primaryType, message, signature)
\* by caller c on the shared signer, for the typed data that was signed.
VerifyTypedData(c) ==
  /\ pc[c] = "idle"
  /\ signer.state = "ok"
  /\ \E digest \in {VerifyDigest(typedData)} :
       \E signed \in {SameDigest(digest, HashTypedData(typedData))} :
         \E address \in Addrs, signature \in Signatures :
           LET result == VerifyTypedDataResult(digest, SignedOver(signature, signed),
                                               address, signature)
           IN ReadReturns(c, "VerifyTypedData",
                 IF result.outcome = "panic" THEN "panic" ELSE result.err,
                 IF result.outcome = "ok"
                 THEN <<[m |-> "recovered", a |-> result.addr,
                         r |-> IF result.ok THEN 1 ELSE 0]>>
                 ELSE <<>>)

\* ------------------------------------------------------------- server
\* An error value: its message and, wrapped in it, the failure of the RPC
\* node it comes from.  retryable: the mark of its class, "retryable" or
\* "non-retryable"; the errors of this code are made by fmt.Errorf and are
\* "unmarked".
NoError == [msg |-> "", cause |-> "", retryable |-> "unmarked"]
\* The error the ethclient returns for a failure of the RPC node.
RPCFailure(cause) == [msg |-> cause, cause |-> cause, retryable |-> "unmarked"]
\* fmt.Errorf(msg + ": %w", err)
Errorf(msg, err) == [err EXCEPT !.msg = msg \o ": " \o @]
\* errors.New(msg)
ErrorNew(msg) == [NoError EXCEPT !.msg = msg]

\* The failures of the RPC node: of the transport, and the rejections of a
\* submitted transaction.
TransportFailures ==
  {"connection refused", "connection reset", "context deadline exceeded"}
Rejections == {"nonce too low", "insufficient funds", "gas too low"}
\* The requests the signer makes of the RPC node for a settlement (a write
\* and the wait for its receipt) and for a verification (reads), with the
\* failures each may meet, and the message the signer returns for each.
SettleFailures ==
  ({"PendingNonceAt", "SuggestGasPrice", "EstimateGas", "SendTransaction",
    "WaitMined", "TransactionReceipt"} \X TransportFailures)
  \cup ({"SendTransaction"} \X Rejections)
VerifyFailures == {"CallContract", "CodeAt", "BalanceAt"} \X TransportFailures
StepMessage(step) ==
  CASE step = "PendingNonceAt" -> "failed to get nonce"
    [] step = "SuggestGasPrice" -> "failed to suggest gas price"
    [] step = "EstimateGas" -> "failed to estimate gas"
    [] step = "SendTransaction" -> "failed to send transaction"
    [] step = "WaitMined" -> "failed to wait for transaction"
    [] step = "TransactionReceipt" -> "failed to get transaction receipt"
    [] step = "CallContract" -> "failed to call contract"
    [] step = "CodeAt" -> "failed to get code"
    [] step = "BalanceAt" -> "failed to get balance"
\* The error a method of the signer returns when the step's request fails.
SignerError(failure) == Errorf(StepMessage(failure[1]), RPCFailure(failure[2]))

\* What f.scheme.Settle or f.scheme.Verify returns: a result (Success or
\* IsValid, with the reason when negative) and a nil error, or an error.
\* When a call of the signer fails, the scheme hands on the signer's error
\* or turns it into a negative result.
SchemeResult(ok, reason) == [ok |-> ok, reason |-> reason, err |-> NoError]
SchemeError(err) == [ok |-> FALSE, reason |-> "", err |-> err]
SchemeReturns(failures) ==
  {[signerErr |-> NoError, returns |-> SchemeResult(TRUE, "")],
   [signerErr |-> NoError, returns |-> SchemeResult(FALSE, "invalid_payload")]}
  \cup {[signerErr |-> SignerError(f), returns |-> SchemeError(SignerError(f))]
          : f \in failures}
  \cup {[signerErr |-> SignerError(f),
          returns |-> SchemeResult(FALSE, SignerError(f).msg)] : f \in failures}

\* An answer of the server: an echo.HTTPError with a status code and a
\* message, or the JSON of a typed response with status 200.
NoAnswer == [status |-> 0, kind |-> "none", ok |-> FALSE, reason |-> "", message |-> ""]
NewHTTPError(code, message) ==
  [NoAnswer EXCEPT !.status = code, !.kind = "HTTPError", !.message = message]
JSON(kind, ok, reason) ==
  [NoAnswer EXCEPT !.status = 200, !.kind = kind, !.ok = ok, !.reason = reason]

NoRequest ==
  [handler |-> "none", stage |-> "none", signerErr |-> NoError,
   result |-> SchemeResult(FALSE, ""), answer |-> NoAnswer]

\* server.Settle and server.Verify up to the call of the facilitator: the
\* request body is decoded, and a malformed one answered with status 400.
Decoded(handler, wellFormed, message) ==
  IF wellFormed
  THEN [NoRequest EXCEPT !.handler = handler, !.stage = "decoded"]
  ELSE [NoRequest EXCEPT !.handler = handler, !.stage = "answered",
                         !.answer = NewHTTPError(400, message)]
server_Settle_Decode ==
  /\ request.stage = "none"
  /\ \E wellFormed \in BOOLEAN :
       request' = Decoded("Settle", wellFormed, "Received malformed settlement request")
  /\ UNCHANGED <<typedData, hashed, verified, signerVars>>
server_Verify_Decode ==
  /\ request.stage = "none"
  /\ \E wellFormed \in BOOLEAN :
       request' = Decoded("Verify", wellFormed, "Received malformed payment requirements")
  /\ UNCHANGED <<typedData, hashed, verified, signerVars>>

\* The facilitator the server was made with: evm's or tron's.
IsTron == fac.network = "tron"

\* evm's Facilitator.Settle and Facilitator.Verify: the scheme's result, or
\* its error wrapped.
Called(scheme, message) ==
  [request EXCEPT
     !.stage = "called",
     !.signerErr = scheme.signerErr,
     !.result = IF scheme.returns.err # NoError
                THEN SchemeError(Errorf(message, scheme.returns.err))
                ELSE scheme.returns]
Facilitator_Settle ==
  /\ ~IsTron
  /\ request.handler = "Settle"
  /\ request.stage = "decoded"
  /\ \E scheme \in SchemeReturns(SettleFailures) :
       request' = Called(scheme, "settle failed")
  /\ UNCHANGED <<typedData, hashed, verified, signerVars>>
Facilitator_Verify ==
  /\ ~IsTron
  /\ request.handler = "Verify"
  /\ request.stage = "decoded"
  /\ \E scheme \in SchemeReturns(VerifyFailures) :
       request' = Called(scheme, "verify failed")
  /\ UNCHANGED <<typedData, hashed, verified, signerVars>>

\* tron's Facilitator.Settle and Facilitator.Verify: not implemented.
tron_Facilitator_Settle ==
  /\ IsTron
  /\ request.handler = "Settle"
  /\ request.stage = "decoded"
  /\ request' = [request EXCEPT
                   !.stage = "called",
                   !.result = SchemeError(ErrorNew("tron settle not implemented"))]
  /\ UNCHANGED <<typedData, hashed, verified, signerVars>>
tron_Facilitator_Verify ==
  /\ IsTron
  /\ request.handler = "Verify"
  /\ request.stage = "decoded"
  /\ request' = [request EXCEPT
                   !.stage = "called",
                   !.result = SchemeError(ErrorNew("tron verify not implemented"))]
  /\ UNCHANGED <<typedData, hashed, verified, signerVars>>

\* server.Settle and server.Verify after the call of the facilitator: its
\* error answered with status 500 and the error's text, its result with
\* status 200 and the typed response.
Answered(kind) ==
  [request EXCEPT
     !.stage = "answered",
     !.answer = IF request.result.err # NoError
                THEN NewHTTPError(500, request.result.err.msg)
                ELSE JSON(kind, request.result.ok, request.result.reason)]
server_Settle ==
  /\ request.handler = "Settle"
  /\ request.stage = "called"
  /\ request' = Answered("PaymentSettleResponse")
  /\ UNCHANGED <<typedData, hashed, verified, signerVars>>
server_Verify ==
  /\ request.handler = "Verify"
  /\ request.stage = "called"
  /\ request' = Answered("PaymentVerifyResponse")
  /\ UNCHANGED <<typedData, hashed, verified, signerVars>>

Init ==
  /\ fac = NoFacilitator
  /\ typedData = NoTypedData
  /\ hashed = NoHashed
  /\ verified = NoVerified
  /\ request = NoRequest
  /\ config \in CallConfigs
  /\ signer = NoSigner
  /\ newErr = ""
  /\ conn = "none"
  /\ rpc \in CallRpcs
  /\ pending = [a \in Addrs |-> StartNonce(a)]
  /\ sent = <<>>
  /\ mined = {}
  /\ serialized \in BOOLEAN
  /\ lock = NoCaller
  /\ pc = [c \in Callers |-> "idle"]
  /\ call = [c \in Callers |-> NoCall]
  /\ wait = [c \in Callers |-> NoWait]

Next ==
  \/ NewEVMSigner
  \/ \E c \in Callers :
       \/ WriteContract_Begin(c)
       \/ SendTransaction_Begin(c)
       \/ PendingNonceAt(c)
       \/ SuggestGasPrice(c)
       \/ EstimateGas(c)
       \/ Sign(c)
       \/ SendTransaction(c)

Spec == Init /\ [][Next]_vars

\* The state in which every caller's SendTransaction has succeeded, one call
\* after the other, on the signer built from a private key alone.
WaitConfig ==
  [RpcURL |-> "url", ChainID |-> 0, PrivateKey |-> "K1", Signer |-> "nil",
   Addresses |-> <<>>]
SentCall(c, r) ==
  LET nonce == StartNonce("A1") + c - 1
      tx == NewTransaction(nonce, "T1", 0, GasLimit(r.gasEstimate), r.gasPrice, "raw")
      digest == Digest(r.networkID, tx)
  IN [op |-> "SendTransaction", to |-> "T1", data |-> "raw", from |-> "A1",
      nonce |-> nonce, gasPrice |-> r.gasPrice, gasLimit |-> GasLimit(r.gasEstimate),
      digest |-> digest, sig |-> "K1", hash |-> SignedTxHash(digest, "K1"),
      err |-> "",
      log |-> <<[m |-> "PendingNonceAt", a |-> "A1", r |-> nonce],
                [m |-> "SuggestGasPrice", a |-> "", r |-> r.gasPrice],
                [m |-> "EstimateGas", a |-> "A1", r |-> r.gasEstimate],
                [m |-> "Sign", a |-> "", r |-> 0],
                [m |-> "SendTransaction", a |-> "", r |-> 0]>>]

InitWait ==
  /\ fac = NoFacilitator
  /\ typedData = NoTypedData
  /\ hashed = NoHashed
  /\ verified = NoVerified
  /\ request = NoRequest
  /\ rpc \in CallRpcs
  /\ config = WaitConfig
  /\ signer = [state |-> "ok", addresses |-> <<"A1">>, chainID |-> rpc.networkID,
               kind |-> "key", key |-> "K1"]
  /\ newErr = ""
  /\ conn = "open"
  /\ pending = [a \in Addrs |-> IF a = "A1" THEN StartNonce(a) + NumCallers
                                ELSE StartNonce(a)]
  /\ sent = [c \in Callers |->
               [caller |-> c, from |-> "A1", sender |-> "A1",
                nonce |-> StartNonce("A1") + c - 1, accepted |-> TRUE,
                hash |-> SentCall(c, rpc).hash]]
  /\ mined = {}
  /\ serialized \in BOOLEAN
  /\ lock = NoCaller
  /\ pc = [c \in Callers |-> "returned"]
  /\ call = [c \in Callers |-> SentCall(c, rpc)]
  /\ wait = [c \in Callers |-> NoWait]

NextWait ==
  \/ Mine
  \/ \E c \in Callers :
       \/ WaitForTransactionReceipt_Begin(c)
       \/ WaitMined(c)
       \/ CtxDone(c)

SpecWait == InitWait /\ [][NextWait]_vars

\* Holds under Spec until the callers reach a state of InitWait (they do).
NotYetInitWait == ~InitWait

\* Construction alone: NewEVMSigner on any configuration, or NewFacilitator on
\* any arguments, against an RPC node of either network.
NewRpcs == [networkID : NetworkIDs, gasPrice : {1000000000}, gasEstimate : {21000}]
InitNew ==
  /\ fac = NoFacilitator
  /\ typedData = NoTypedData
  /\ hashed = NoHashed
  /\ verified = NoVerified
  /\ request = NoRequest
  /\ config \in Configs
  /\ signer = NoSigner
  /\ newErr = ""
  /\ conn = "none"
  /\ rpc \in NewRpcs
  /\ pending = [a \in Addrs |-> StartNonce(a)]
  /\ sent = <<>>
  /\ mined = {}
  /\ serialized = FALSE
  /\ lock = NoCaller
  /\ pc = [c \in Callers |-> "idle"]
  /\ call = [c \in Callers |-> NoCall]
  /\ wait = [c \in Callers |-> NoWait]

NextNew == NewEVMSigner \/ NewFacilitator

SpecNew == InitNew /\ [][NextNew]_vars

\* The EIP-712 functions alone, on every typed data of TypedDatas.
InitHash ==
  /\ typedData \in TypedDatas
  /\ hashed = NoHashed
  /\ verified = NoVerified
  /\ request = NoRequest
  /\ fac = NoFacilitator
  /\ config = WaitConfig
  /\ signer = NoSigner
  /\ newErr = ""
  /\ conn = "none"
  /\ rpc \in {r \in NewRpcs : r.networkID = 1}
  /\ pending = [a \in Addrs |-> StartNonce(a)]
  /\ sent = <<>>
  /\ mined = {}
  /\ serialized = FALSE
  /\ lock = NoCaller
  /\ pc = [c \in Callers |-> "idle"]
  /\ call = [c \in Callers |-> NoCall]
  /\ wait = [c \in Callers |-> NoWait]

NextHash == HashTypedData_Call \/ typeHash_Call \/ encodeValue_Call

SpecHash == InitHash /\ [][NextHash]_vars

\* One EVMSigner shared by callers that run any of its methods concurrently,
\* without a lock, while the RPC node mines nothing.
SharedConfigs ==
  {cfg \in CallConfigs : cfg.PrivateKey = "K1" /\ cfg.Addresses = <<"A2", "A1">>}
InitShared ==
  /\ fac = NoFacilitator
  /\ typedData = NoTypedData
  /\ hashed = NoHashed
  /\ verified = NoVerified
  /\ request = NoRequest
  /\ config \in SharedConfigs
  /\ signer = NoSigner
  /\ newErr = ""
  /\ conn = "none"
  /\ rpc \in {r \in NewRpcs : r.networkID = 1}
  /\ pending = [a \in Addrs |-> StartNonce(a)]
  /\ sent = <<>>
  /\ mined = {}
  /\ serialized = FALSE
  /\ lock = NoCaller
  /\ pc = [c \in Callers |-> "idle"]
  /\ call = [c \in Callers |-> NoCall]
  /\ wait = [c \in Callers |-> NoWait]

NextShared ==
  \/ NewEVMSigner
  \/ \E c \in Callers :
       \/ GetAddresses(c)
       \/ GetChainID(c)
       \/ ReadContract(c)
       \/ GetBalance(c)
       \/ GetCode(c)
       \/ VerifyTypedData(c)
       \/ WriteContract_Begin(c)
       \/ SendTransaction_Begin(c)
       \/ PendingNonceAt(c)
       \/ SuggestGasPrice(c)
       \/ EstimateGas(c)
       \/ Sign(c)
       \/ SendTransaction(c)
       \/ WaitForTransactionReceipt_Begin(c)
       \/ WaitMined(c)
       \/ CtxDone(c)

SpecShared == InitShared /\ [][NextShared]_vars

\* VerifyTypedData alone: a typed data is signed, and one call verifies a
\* typed data, the same or another, with a signature.
VerifyMessages ==
  {<<"string", StringValue(<<"h", "i">>)>>, <<"string", StringValue(<<"h", "j">>)>>,
   <<"uint256", StringValue(<<"5">>)>>, <<"uint256", StringValue(<<"-", "5">>)>>,
   <<"uint256", StringValue(<<"1", "5">>)>>, <<"uint256", MapValue>>}
VerifyDatas ==
  {td \in TypedDatas :
     /\ td.PrimaryType = "Value"
     /\ td.Domain.Name # <<>> /\ td.Domain.Version # <<>>
     /\ td.Domain.VerifyingContract # <<>>
     /\ DOMAIN td.Message = {"v"}
     /\ <<td.Types["Value"][1].type, td.Message["v"]>> \in VerifyMessages}

\* ok, err := s.VerifyTypedData(ctx, address, td.Domain, td.Types,
\* td.PrimaryType, td.Message, signature), where code tells whether the RPC
\* node holds bytecode at address.
VerifyTypedData_Call ==
  /\ verified = NoVerified
  /\ \E td \in VerifyDatas :
       \E digest \in {VerifyDigest(td)} :
         \E same \in {SameDigest(digest, HashTypedData(typedData))} :
           \E address \in Addrs, signature \in Signatures, code \in BOOLEAN :
             verified' =
               [VerifyTypedDataResult(digest, SignedOver(signature, same),
                                      address, signature)
                  EXCEPT !.td = td, !.code = code]
  /\ UNCHANGED <<typedData, hashed, request, signerVars>>

InitVerify ==
  /\ typedData \in VerifyDatas
  /\ hashed = NoHashed
  /\ verified = NoVerified
  /\ request = NoRequest
  /\ fac = NoFacilitator
  /\ config = WaitConfig
  /\ signer = EVMSignerOf(WaitConfig, 1)
  /\ newErr = ""
  /\ conn = "open"
  /\ rpc \in {r \in NewRpcs : r.networkID = 1}
  /\ pending = [a \in Addrs |-> StartNonce(a)]
  /\ sent = <<>>
  /\ mined = {}
  /\ serialized = FALSE
  /\ lock = NoCaller
  /\ pc = [c \in Callers |-> "idle"]
  /\ call = [c \in Callers |-> NoCall]
  /\ wait = [c \in Callers |-> NoWait]

NextVerify == VerifyTypedData_Call

SpecVerify == InitVerify /\ [][NextVerify]_vars

\* The HTTP server on a facilitator: one request to /settle or /verify.
InitServer ==
  /\ request = NoRequest
  /\ typedData = NoTypedData
  /\ hashed = NoHashed
  /\ verified = NoVerified
  /\ fac \in {[NoFacilitator EXCEPT !.state = "ok", !.network = n]
               : n \in {"base-sepolia", "tron"}}
  /\ config = WaitConfig
  /\ signer = EVMSignerOf(WaitConfig, 1)
  /\ newErr = ""
  /\ conn = "open"
  /\ rpc \in {r \in NewRpcs : r.networkID = 1}
  /\ pending = [a \in Addrs |-> StartNonce(a)]
  /\ sent = <<>>
  /\ mined = {}
  /\ serialized = FALSE
  /\ lock = NoCaller
  /\ pc = [c \in Callers |-> "idle"]
  /\ call = [c \in Callers |-> NoCall]
  /\ wait = [c \in Callers |-> NoWait]

NextServer ==
  \/ server_Settle_Decode
  \/ Facilitator_Settle
  \/ server_Settle
  \/ server_Verify_Decode
  \/ Facilitator_Verify
  \/ server_Verify
  \/ tron_Facilitator_Settle
  \/ tron_Facilitator_Verify

SpecServer == InitServer /\ [][NextServer]_vars

\* ------------------------------------------------------------- properties
\* The methods of a call's log, in order.
Names(log) == [i \in DOMAIN log |-> log[i].m]
\* The entries of a call's log for method m.
Entries(log, m) == {i \in DOMAIN log : log[i].m = m}
\* The number the RPC node replied to caller c's request m.
Reply(c, m) == call[c].log[CHOOSE i \in Entries(call[c].log, m) : TRUE].r
\* The submissions of caller c in the RPC node's record.
SentBy(c) == {i \in DOMAIN sent : sent[i].caller = c}
\* Caller c holds a transaction it built (and has not failed since).
Built(c) == call[c].digest # NoDigest
IsPrefix(s, t) == Len(s) <= Len(t) /\ \A i \in DOMAIN s : s[i] = t[i]
CallOrder ==
  <<"PendingNonceAt", "SuggestGasPrice", "EstimateGas", "Sign", "SendTransaction">>

\* C1: every transaction the RPC node records carries the very nonce the RPC
\* node reported to its call, so two calls for one address that were told
\* the same pending nonce submit transactions with that same nonce; without
\* serialization such a pair is reached (C1_Race).
C1_SubmitsNonceRead ==
  /\ \A i \in DOMAIN sent : sent[i].nonce = Reply(sent[i].caller, "PendingNonceAt")
  /\ \A i, j \in DOMAIN sent :
       (/\ sent[i].from = sent[j].from
        /\ Reply(sent[i].caller, "PendingNonceAt") = Reply(sent[j].caller, "PendingNonceAt"))
       => sent[i].nonce = sent[j].nonce

\* Two unserialized calls of different callers for the signer's own address
\* read the same pending nonce and both had a transaction with it accepted.
C1_Race ==
  /\ ~serialized
  /\ \E i, j \in DOMAIN sent :
       /\ sent[i].caller # sent[j].caller
       /\ sent[i].from = sent[j].from
       /\ sent[i].sender = sent[i].from /\ sent[j].sender = sent[j].from
       /\ sent[i].accepted /\ sent[j].accepted
       /\ Reply(sent[i].caller, "PendingNonceAt") = Reply(sent[j].caller, "PendingNonceAt")
       /\ sent[i].nonce = sent[j].nonce

\* Submissions i before j, both accepted, for one address whose pending
\* nonce the RPC node advances on each of them (the sender is that address).
AcceptedPair(i, j) ==
  /\ i < j
  /\ sent[i].accepted /\ sent[j].accepted
  /\ sent[i].from = sent[j].from
  /\ sent[i].sender = sent[i].from /\ sent[j].sender = sent[j].from

\* C2: when the callers hold the per-address lock from the nonce fetch to the
\* submission, any two accepted submissions for an address whose pending
\* nonce the RPC node advances on each carry strictly increasing nonces.
C2_LockedNoncesIncrease ==
  serialized =>
    \A i, j \in DOMAIN sent : AcceptedPair(i, j) => sent[i].nonce < sent[j].nonce

C2_TwoLockedAccepted ==
  serialized /\ \E i, j \in DOMAIN sent : AcceptedPair(i, j)

\* C3: one invocation fetches a nonce at most once and submits at most once;
\* a call that failed has returned, with an error and the empty hash.
C3_AtMostOneSubmission ==
  \A c \in Callers :
    /\ Cardinality(SentBy(c)) <= 1
    /\ Cardinality(Entries(call[c].log, "PendingNonceAt")) <= 1
    /\ Cardinality(Entries(call[c].log, "SendTransaction")) <= 1
    /\ call[c].err # "" => pc[c] = "returned" /\ call[c].hash = NoHash

\* A submission was rejected and the call returned that error.
C3_RejectedAndReturned ==
  \E c \in Callers :
    /\ \E i \in SentBy(c) : ~sent[i].accepted
    /\ pc[c] = "returned"
    /\ call[c].err = "failed to send transaction"

\* Caller c's WaitForTransactionReceipt is over: returned, or faulted.
Ended(c) == pc[c] \in {"waitReturned", "panicked"}

\* C4 as stated: the wait is for txHash and no other transaction, and a call
\* that is over, for which the receipt of txHash was there while its context
\* lived, has returned successfully with the receipt of txHash.
C4_ReceiptOfTxHash ==
  \A c \in Callers :
    /\ pc[c] = "WaitMined" => wait[c].awaited = wait[c].txHash
    /\ (Ended(c) /\ wait[c].due) =>
         /\ pc[c] = "waitReturned"
         /\ wait[c].result = "ok"
         /\ wait[c].receipt = wait[c].txHash

\* C5 as stated: a call whose context ended while txHash was still unmined
\* is over only by returning an error and no receipt, after its deadline,
\* with its polling stopped.
C5_TimeoutReturnsError ==
  \A c \in Callers :
    (Ended(c) /\ ~wait[c].due) =>
      /\ pc[c] = "waitReturned"
      /\ wait[c].ctxDone
      /\ wait[c].result = "failed to wait for transaction"
      /\ wait[c].receipt = NoHash
      /\ ~wait[c].polling

\* C6: the transaction WriteContract builds, whose digest it hands to the
\* signer, has the nonce, gas price and gas estimate the RPC node reported,
\* value 0, the contract address as destination and the packed call as data.
C6_IntentFields ==
  \A c \in Callers :
    (call[c].op = "WriteContract" /\ Built(c)) =>
      /\ call[c].digest.tx =
           [nonce |-> Reply(c, "PendingNonceAt"),
            to |-> call[c].to,
            value |-> 0,
            gas |-> Reply(c, "EstimateGas"),
            gasPrice |-> Reply(c, "SuggestGasPrice"),
            data |-> Pack("transfer")]
      /\ call[c].to \in ToAddrs
      /\ call[c].digest.chainID = signer.chainID

\* WriteContract signed a transaction with nonce 5, gas price 1000000000 and
\* gas limit 21000 and returned its hash.
C6_ScenarioD ==
  \E c \in Callers :
    /\ call[c].op = "WriteContract" /\ pc[c] = "returned" /\ call[c].err = ""
    /\ Reply(c, "PendingNonceAt") = 5
    /\ Reply(c, "SuggestGasPrice") = 1000000000
    /\ Reply(c, "EstimateGas") = 21000
    /\ call[c].digest.tx.nonce = 5
    /\ call[c].digest.tx.gasPrice = 1000000000
    /\ call[c].digest.tx.gas = 21000

\* C7 as stated: the gas limit of a built transaction is strictly above the
\* RPC node's estimate.
C7_GasAboveEstimate ==
  \A c \in Callers : Built(c) => call[c].digest.tx.gas > Reply(c, "EstimateGas")

\* C7 amended: the gas limit of the transaction WriteContract and
\* SendTransaction build is exactly the RPC node's estimate; no margin is added.
C7_GasIsEstimate ==
  \A c \in Callers : Built(c) => call[c].digest.tx.gas = Reply(c, "EstimateGas")

\* Both kinds of call built a transaction from an estimate of 50000.
C7_BothBuilt ==
  \E c, d \in Callers :
    /\ call[c].op = "WriteContract" /\ call[d].op = "SendTransaction"
    /\ Built(c) /\ Built(d)
    /\ Reply(c, "EstimateGas") = 50000 /\ Reply(d, "EstimateGas") = 50000

\* C8: at every moment the requests of a call so far are the first ones of:
\* pending nonce, gas price, gas estimate, signing, submission; a call that
\* succeeded made exactly these, returned the hash of the transaction it
\* submitted, and asked for no receipt.
C8_StepOrder ==
  \A c \in Callers :
    /\ IsPrefix(Names(call[c].log), CallOrder)
    /\ (pc[c] = "returned" /\ call[c].err = "") =>
         /\ Names(call[c].log) = CallOrder
         /\ call[c].hash = SignedTxHash(call[c].digest, call[c].sig)
         /\ \E i \in SentBy(c) : sent[i].hash = call[c].hash
         /\ Entries(call[c].log, "TransactionReceipt") = {}
         /\ wait[c] = NoWait

\* Calls of both kinds succeeded.
C8_BothSucceeded ==
  \E c, d \in Callers :
    /\ call[c].op = "WriteContract" /\ call[d].op = "SendTransaction"
    /\ pc[c] = "returned" /\ call[c].err = ""
    /\ pc[d] = "returned" /\ call[d].err = ""

\* C9 as stated: the address a call asks the pending nonce of, and names as
\* the sender of the gas estimate, is the address of the key that signs.
C9_NonceOfSigningKey ==
  \A c \in Callers :
    \A i \in DOMAIN call[c].log :
      call[c].log[i].m \in {"PendingNonceAt", "EstimateGas"}
        => call[c].log[i].a = PubkeyToAddress(signer.key)

Discovered ==
  /\ signer.state # "none"
  /\ newErr \notin {"rpc URL is required", "failed to connect to RPC",
                    "failed to get network ID"}

C12_MissingKeyAndCallback ==
  (/\ fac.state = "none" /\ signer.state # "none"
   /\ config.RpcURL # "" /\ config.PrivateKey = "" /\ config.Signer = "nil")
  => /\ signer = [NoSigner EXCEPT !.state = "failed"]
     /\ newErr = "either PrivateKey or SignerCallback must be provided"

\* C13: on a signer built from a configuration with both a callback and a
\* private key, every signature a call obtained and every transaction the
\* RPC node received was made by the callback, none by the private key.
C13_CallbackPrecedence ==
  (signer.state = "ok" /\ config.Signer = "callback" /\ config.PrivateKey \in Keys)
  => /\ signer.kind = "callback"
     /\ \A c \in Callers : call[c].sig \in {"", CallbackKey, "malformed"}
     /\ \A i \in DOMAIN sent :
          /\ sent[i].hash.by = CallbackKey
          /\ sent[i].sender # PubkeyToAddress(config.PrivateKey)

\* With both configured, calls of both kinds had their transaction signed by
\* the callback and accepted.
C13_CallbackSigned ==
  /\ config.Signer = "callback" /\ config.PrivateKey = "K1"
  /\ \E i, j \in DOMAIN sent :
       /\ call[sent[i].caller].op = "WriteContract"
       /\ call[sent[j].caller].op = "SendTransaction"
       /\ sent[i].accepted /\ sent[j].accepted
       /\ sent[i].hash.by = CallbackKey /\ sent[j].hash.by = CallbackKey

\* C14: NewFacilitator answers an empty network with "network is required",
\* else an empty RPC URL with "rpc URL is required", else an empty private key
\* with "private key is required", and in each of these cases has built no
\* configuration, no signer and no connection.
C14_ArgumentOrder ==
  fac.state # "none" =>
    LET a == fac.args
        missing == a.network = "" \/ a.rpcURL = "" \/ a.privateKeyHex = ""
    IN /\ a.network = "" => fac.err = "network is required"
       /\ (a.network # "" /\ a.rpcURL = "") => fac.err = "rpc URL is required"
       /\ (a.network # "" /\ a.rpcURL # "" /\ a.privateKeyHex = "")
            => fac.err = "private key is required"
       /\ missing => /\ fac.state = "failed"
                      /\ signer = NoSigner /\ conn = "none" /\ newErr = ""
       /\ ~missing => fac.err \notin {"network is required", "rpc URL is required",
                                       "private key is required"}

\* All three arguments were empty and the network was the one reported.
C14_AllMissing ==
  /\ fac.state = "failed"
  /\ fac.args = NoArgs
  /\ fac.err = "network is required"
  /\ signer = NoSigner /\ conn = "none"

\* The struct types a type's fields name, then those their fields name, ...
RECURSIVE ReferencedTypes(_, _, _)
ReferencedTypes(types, frontier, found) ==
  LET named == {f.type : f \in UNION {{FieldsOf(types, n)[i] : i \in DOMAIN FieldsOf(types, n)}
                                       : n \in frontier}}
      new == (named \cap DOMAIN types) \ (found \cup {"EIP712Domain"})
  IN IF new = {} THEN found ELSE ReferencedTypes(types, new, found \cup new)

\* The struct names of the model in lexicographic order.
SortedTypeNames == <<"Asset", "Mail", "Order", "Person", "Transfer", "Value">>

RECURSIVE ReferencedTypeStrings(_, _, _)
ReferencedTypeStrings(types, referenced, i) ==
  IF i > Len(SortedTypeNames) THEN ""
  ELSE (IF SortedTypeNames[i] \in referenced
        THEN TypeString(types, SortedTypeNames[i]) ELSE "")
       \o ReferencedTypeStrings(types, referenced, i + 1)

\* The fields of the primary type of typedData.
PrimaryFields == FieldsOf(typedData.Types, typedData.PrimaryType)

\* C16 as stated: the string typeHash hashes for the primary type is the
\* type's own "Name(type field,...)" followed by the strings of all struct
\* types it references, directly or through others, each once, in
\* lexicographic order of their names.
C16_TypeStringComplete ==
  hashed.op = "typeHash" =>
    LET types == typedData.Types
        primaryType == typedData.PrimaryType
        referenced == ReferencedTypes(types, {primaryType}, {}) \ {primaryType}
    IN hashed.typeStr =
         TypeString(types, primaryType) \o ReferencedTypeStrings(types, referenced, 1)

\* C17 as stated: when the message lacks a declared field of the primary
\* type, HashTypedData returns an error and no digest.
C17_MissingFieldIsError ==
  (/\ hashed.op = "HashTypedData"
   /\ \E i \in DOMAIN PrimaryFields : PrimaryFields[i].name \notin DOMAIN typedData.Message)
  => /\ hashed.outcome = "error"
     /\ hashed.err # ""
     /\ hashed.domain = <<>> /\ hashed.message = <<>>

\* The fields of the domain that are present, in the order of DomainType.
PresentDomainFields ==
  LET d == typedData.Domain
  IN SelectSeq(DomainType,
       LAMBDA f : \/ f.name = "name" /\ d.Name # <<>>
                  \/ f.name = "version" /\ d.Version # <<>>
                  \/ f.name = "chainId" /\ ~d.ChainId.nil
                  \/ f.name = "verifyingContract" /\ d.VerifyingContract # <<>>)

\* C18 as stated: whichever fields the domain omits, hashing the domain
\* succeeds, its type string names exactly the fields that are present and
\* its encoded data holds one piece for each of them after the type hash.
C18_OnlyPresentDomainFields ==
  hashed.op = "HashTypedData" =>
    /\ hashed.outcome # "panic"
    /\ hashed.outcome = "ok" =>
         /\ hashed.domain[1].typeStr = "EIP712Domain(" \o FieldList(PresentDomainFields) \o ")"
         /\ Len(hashed.domain) = 1 + Len(PresentDomainFields)

\* C19 as stated: each preimage hashStruct hashes is the 32-byte type hash
\* followed by one 32-byte word per declared field, for the message and for
\* the domain; a domain of four fields makes 160 bytes.
C19_WordPerField ==
  (hashed.op = "HashTypedData" /\ hashed.outcome = "ok") =>
    /\ \A i \in DOMAIN hashed.message : PieceLen(hashed.message[i]) = 32
    /\ Len(hashed.message) = 1 + Len(PrimaryFields)
    /\ \A i \in DOMAIN hashed.domain : PieceLen(hashed.domain[i]) = 32
    /\ typedData.Types["EIP712Domain"] = DomainType
         => (Len(hashed.domain) = 5 /\ EncodedLen(hashed.domain) = 160)

\* A decimal string of a negative number, or a negative big integer.
IsNegative(value) ==
  \/ value.t = "*big.Int" /\ value.neg
  \/ /\ value.t = "string"
     /\ Len(value.s) >= 2
     /\ value.s[1] = "-"
     /\ \A i \in 2 .. Len(value.s) : IsDigit(value.s[i])
     /\ \E i \in 2 .. Len(value.s) : value.s[i] # "0"

\* C20 as stated: encodeValue for a uintN field returns an error for every
\* negative value, given as a decimal string or as a big integer.
C20_NegativeUintIsError ==
  (hashed.op = "encodeValue" /\ PrimaryFields[hashed.field].type \in {"uint256", "uint8"}
   /\ IsNegative(MapIndex(typedData.Message, PrimaryFields[hashed.field].name)))
  => (hashed.outcome = "error" /\ hashed.err # "")

\* The addresses a returned GetAddresses call of caller c handed out.
AddressesSeen(c) == [i \in DOMAIN call[c].log |-> call[c].log[i].a]

\* C15: on one EVMSigner shared by concurrent callers, once NewEVMSigner has
\* returned it, no method changes its addresses, chain id or signing
\* callback: the signer stays the one the constructor built, and whatever
\* other calls are in flight, GetAddresses hands out the constructor's
\* addresses, GetChainID its chain id, and a write sends from its first
\* address.
C15_SharedSignerUnchanged ==
  signer.state = "ok" =>
    /\ signer = EVMSignerOf(config, rpc.networkID)
    /\ \A c \in Callers :
         /\ (pc[c] = "readReturned" /\ call[c].op = "GetAddresses")
              => AddressesSeen(c) = SignerAddresses(config)
         /\ (pc[c] = "readReturned" /\ call[c].op = "GetChainID")
              => call[c].log[1].r = rpc.networkID
         /\ (call[c].op \in {"WriteContract", "SendTransaction"} /\ call[c].from # "")
              => call[c].from = SignerAddresses(config)[1]
\* A caller has read the addresses of the shared signer while another
\* caller is inside a write, holding a transaction the same signer signed
\* and about to submit it.
C15_ReadDuringWrite ==
  \E c, d \in Callers :
    /\ c # d
    /\ pc[c] = "SendTransaction"
    /\ call[c].op \in {"WriteContract", "SendTransaction"}
    /\ call[c].from = "A2"
    /\ call[c].sig # ""
    /\ pc[d] = "readReturned"
    /\ call[d].op = "GetAddresses"
    /\ AddressesSeen(d) = <<"A2", "A1">>

\* C21 as stated: whenever encodeValue succeeds, for any field type and any
\* value, integers of any magnitude included, the encoding it returns is
\* exactly 32 bytes long.
C21_EncodingIs32Bytes ==
  (hashed.op = "encodeValue" /\ hashed.outcome = "ok") => PieceLen(hashed.word) = 32

\* The digits of a hex literal: what follows its "0x" prefix, if it has one.
HexBody(str) == IF Has0xPrefix(str) THEN SubSeq(str, 3, Len(str)) ELSE str
\* A character that is no hex digit is among them.
HasNonHexDigit(str) == \E i \in DOMAIN str : ~IsHexDigit(str[i])
\* A string that is no decimal integer: something else than an optional sign
\* followed by decimal digits.
IsNonDecimal(str) ==
  LET digits == IF Len(str) > 0 /\ str[1] \in {"+", "-"} THEN Tail(str) ELSE str
  IN digits = <<>> \/ \E i \in DOMAIN digits : ~IsDigit(digits[i])
\* The field of the primary type encodeValue was called for, and its value.
EncodedField == PrimaryFields[hashed.field]
EncodedValue == MapIndex(typedData.Message, EncodedField.name)
\* The literal handed to encodeValue is malformed for the type of its field.
MalformedLiteral ==
  /\ EncodedValue.t = "string"
  /\ \/ /\ EncodedField.type = "bytes"
        /\ Has0xPrefix(EncodedValue.s)
        /\ \/ HasNonHexDigit(HexBody(EncodedValue.s))
           \/ Len(HexBody(EncodedValue.s)) % 2 = 1
     \/ /\ EncodedField.type = "address"
        /\ HasNonHexDigit(HexBody(EncodedValue.s))
     \/ /\ EncodedField.type \in {"uint256", "uint8", "int256"}
        /\ IsNonDecimal(EncodedValue.s)

\* C22 as stated: encodeValue returns an error, and no encoding, for a
\* "0x"-prefixed bytes value with a character that is no hex digit or with an
\* odd number of digits, for an address string that is not valid hex, and
\* for an integer string that is not decimal.
C22_MalformedLiteralIsError ==
  (hashed.op = "encodeValue" /\ MalformedLiteral)
  => (hashed.outcome = "error" /\ hashed.err # "")

\* What a VerifyTypedData call returned: how it ended, its error, the address
\* it recovered and its boolean.
Returned(v) == <<v.outcome, v.err, v.addr, v.ok>>
\* The result of the call recorded in verified had it been handed signature.
VerifiedWith(signature) ==
  LET digest == VerifyDigest(verified.td)
  IN VerifyTypedDataResult(
       digest, SignedOver(signature, SameDigest(digest, HashTypedData(typedData))),
       verified.address, signature)

\* C23: for every typed data and every 65-byte signature whose recovery byte
\* is 27 or 28, VerifyTypedData returns what it returns for the signature of
\* the same r and s whose recovery byte is 0 or 1: the same recovered
\* address, the same boolean, the same error.
C23_RecoveryByteEncoding ==
  (/\ verified.op = "VerifyTypedData"
   /\ verified.signature.len = 65
   /\ verified.signature.v \in {27, 28})
  => Returned(verified)
       = Returned(VerifiedWith([verified.signature EXCEPT !.v = @ - 27]))
\* A signature with recovery byte 27, made over the typed data verified, by
\* the key of the expected address: the call returned true.
C23_Matched27 ==
  /\ verified.op = "VerifyTypedData"
  /\ verified.signature.len = 65
  /\ verified.signature.v = 27
  /\ verified.outcome = "ok"
  /\ verified.ok

\* C24 as stated: VerifyTypedData with a signature whose length is not 65
\* bytes, the empty one included, returns an error and false: it does not
\* panic and reports no match.
C24_BadLengthIsError ==
  (verified.op = "VerifyTypedData" /\ verified.signature.len # 65)
  => (verified.outcome = "error" /\ verified.err # "" /\ ~verified.ok)

\* The signature crypto.Sign makes of HashTypedData(typedData) with a key,
\* handed to the call together with the address of that key.
SignedByExpected ==
  /\ HashTypedData(typedData).outcome = "ok"
  /\ verified.signature.len = 65
  /\ verified.signature.over = "this"
  /\ verified.signature.v = RecoveryID(verified.signature.key)
  /\ verified.address = PubkeyToAddress(verified.signature.key)
\* The typed data verified is the one signed, but for the value of one field
\* of its message.
DiffersInOneValue(td) ==
  /\ td.Types = typedData.Types
  /\ td.PrimaryType = typedData.PrimaryType
  /\ td.Domain = typedData.Domain
  /\ DOMAIN td.Message = DOMAIN typedData.Message
  /\ Cardinality({n \in DOMAIN td.Message : td.Message[n] # typedData.Message[n]}) = 1

\* C25 as stated: with the signature a key makes of HashTypedData(T) and the
\* address of that key, VerifyTypedData on T returns true, and on a typed
\* data that differs from T in the value of one message field it returns
\* false or an error, never true.
C25_RoundTrip ==
  (verified.op = "VerifyTypedData" /\ SignedByExpected)
  => /\ verified.td = typedData => (verified.outcome = "ok" /\ verified.ok)
     /\ DiffersInOneValue(verified.td) => ~(verified.outcome = "ok" /\ verified.ok)

\* C26 as stated: when the recovered address differs from the expected one
\* and the RPC node holds bytecode at the expected address, VerifyTypedData
\* makes an on-chain read call before it reports the failure; when the
\* recovered address is the expected one it makes no RPC call.
C26_OnChainFallback ==
  (verified.op = "VerifyTypedData" /\ verified.outcome = "ok")
  => /\ (~verified.ok /\ verified.code)
          => \E i \in DOMAIN verified.asked : verified.asked[i].m = "CallContract"
     /\ verified.ok => verified.asked = <<>>

\* The errors of the steps before the submission, and the requests a call
\* that returned one of them has made: those up to the failed step.
StepsBefore(err) ==
  CASE err \in {"no signer addresses available", "failed to parse ABI",
                "failed to pack function call"} -> <<>>
    [] err = "failed to get nonce" -> <<"PendingNonceAt">>
    [] err = "failed to suggest gas price" -> <<"PendingNonceAt", "SuggestGasPrice">>
    [] err = "failed to estimate gas" ->
         <<"PendingNonceAt", "SuggestGasPrice", "EstimateGas">>
    [] err \in {"failed to sign transaction", "failed to apply signature"} ->
         <<"PendingNonceAt", "SuggestGasPrice", "EstimateGas", "Sign">>
    [] OTHER ->
         <<"PendingNonceAt", "SuggestGasPrice", "EstimateGas", "Sign", "SendTransaction">>

\* C29: a WriteContract or SendTransaction call in which a step has failed
\* (ABI parsing or packing, the nonce, the gas price, the gas estimate,
\* signing, applying the signature) has returned the empty hash and the
\* step's error, and has run none of the later steps: its requests end with
\* the failed step, so the signing callback is not invoked after a failed
\* query and nothing is submitted after a failed or malformed signature.
C29_FailureEndsCall ==
  \A c \in Callers :
    (call[c].op \in {"WriteContract", "SendTransaction"} /\ call[c].err # "")
    => /\ pc[c] = "returned"
       /\ call[c].hash = NoHash
       /\ Names(call[c].log) = StepsBefore(call[c].err)
       /\ call[c].err # "failed to send transaction" => SentBy(c) = {}
\* One call has returned the callback's error and another the error of a
\* malformed signature, each after its three queries.
C29_SignAndApplyFailed ==
  \E c, d \in Callers :
    /\ pc[c] = "returned" /\ call[c].err = "failed to sign transaction"
    /\ pc[d] = "returned" /\ call[d].err = "failed to apply signature"
    /\ Len(call[c].log) = 4 /\ Len(call[d].log) = 4

\* C30 as stated: when NewEVMSigner has failed after ethclient.Dial opened
\* the connection (the network id query failed, the chain id differs, the
\* private key does not parse, or neither key nor callback is configured),
\* the connection has been closed: a failed construction leaves no open
\* connection.
C30_FailedConstructionCloses ==
  (signer.state = "failed" /\ newErr # "") => conn # "open"

\* C27 as stated: the error a signer operation returns for a failure of the
\* RPC node is marked retryable when the transport failed and marked
\* non-retryable when the node rejected the transaction for a nonce too
\* low, insufficient funds or gas too low.
C27_RetryableMarked ==
  request.signerErr # NoError =>
    /\ request.signerErr.cause \in TransportFailures
         => request.signerErr.retryable = "retryable"
    /\ request.signerErr.cause \in Rejections
         => request.signerErr.retryable = "non-retryable"

\* C28 as stated: when the facilitator's Settle has failed with an error of
\* the RPC node or a timeout, /settle is answered with a typed
\* PaymentSettleResponse whose success is false and whose error reason
\* tells the failure, not with a server fault; and an error of the
\* facilitator's Verify is answered on /verify with a negative
\* PaymentVerifyResponse.
C28_TypedFailureAnswer ==
  (/\ request.stage = "answered"
   /\ request.result.err # NoError
   /\ request.result.err.cause \in TransportFailures \cup Rejections)
  => /\ request.answer.status = 200
     /\ request.answer.kind
          = (IF request.handler = "Settle" THEN "PaymentSettleResponse"
             ELSE "PaymentVerifyResponse")
     /\ ~request.answer.ok
     /\ request.answer.reason # ""
====
